---- MODULE Spec2Model ----
(***************************************************************************)
(* Materialious, src/lib/misc.ts: phaseDescription and convertToSeconds.   *)
(*                                                                         *)
(* A text is a sequence of characters, a character is a one-character      *)
(* string.  The three regular expressions of phaseDescription are written  *)
(* as item sequences and run by a backtracking matcher that tries the      *)
(* alternatives in the order a JavaScript RegExp does (leftmost start,     *)
(* greedy quantifiers longest first, lazy quantifiers shortest first).     *)
(***************************************************************************)
EXTENDS Integers, Sequences, FiniteSets, TLC

VARIABLES
    content,          \* phaseDescription's argument `content`
    usingYoutubeJs,   \* phaseDescription's argument `usingYoutubeJs`
    lines,            \* const lines = content.split('\n')
    idx,              \* position of lines.forEach (next line to visit)
    urlMatch,         \* const urlMatch of the loop body
    timestampMatch,   \* const timestampMatch of the loop body
    filteredLines,    \* let filteredLines: string[]
    timestamps,       \* const timestamps: {title, time, timePretty}[]
    capturedTitles,   \* history: the local `title` of each timestamp pushed
    result,           \* the PhasedDescription returned by the running call
    previous,         \* the PhasedDescription returned by the call before
    pass,             \* number of the running call (2 = called on its own output)
    pc,               \* "call" | "forEach" | "branch" | "done" | "time" | "timeDone"
    time,             \* convertToSeconds' argument `time`
    seconds           \* convertToSeconds' return value

vars == <<content, usingYoutubeJs, lines, idx, urlMatch, timestampMatch, filteredLines,
          timestamps, capturedTitles, result, previous, pass, pc, time, seconds>>

-----------------------------------------------------------------------------
(* Bounds of the model *)

MaxLines == 2     \* lines per description
MaxPasses == 2    \* calls of phaseDescription in a row (own output fed back)
MaxParts == 4     \* ':'-separated parts of a time string

-----------------------------------------------------------------------------
(* Characters and character classes *)

Digits == {"0", "1", "2", "3", "4", "5", "6", "7", "8", "9"}

WhiteSpace == {" ", "\t", "\n", "\r"}

LineTerminators == {"\n", "\r"}

InClass(c, ch) ==
    CASE c = "\\d"   -> ch \in Digits
      [] c = "\\s"   -> ch \in WhiteSpace
      [] c = "\\S"   -> ch \notin WhiteSpace
      [] c = "."     -> ch \notin LineTerminators
      [] c = "[^\"]" -> ch # "\""
      [] c = "[^>]"  -> ch # ">"
      [] c = "[^<]"  -> ch # "<"
      [] c = "\\n"   -> ch = "\n"

-----------------------------------------------------------------------------
(* Regular expressions as item sequences *)

Item(k, s, c, min, greedy, sub, g) ==
    [k |-> k, s |-> s, c |-> c, min |-> min, greedy |-> greedy, sub |-> sub, g |-> g]

Lit(s) == Item("lit", s, "", 0, TRUE, <<>>, 0)          \* literal text
Plus(c) == Item("rep", <<>>, c, 1, TRUE, <<>>, 0)       \* c+
Star(c) == Item("rep", <<>>, c, 0, TRUE, <<>>, 0)       \* c*
LazyStar(c) == Item("rep", <<>>, c, 0, FALSE, <<>>, 0)  \* c*?
Opt(sub) == Item("opt", <<>>, "", 0, TRUE, sub, 0)      \* (?:sub)?
Open(g) == Item("open", <<>>, "", 0, TRUE, <<>>, g)     \* ( of group g
Close(g) == Item("close", <<>>, "", 0, TRUE, <<>>, g)   \* ) of group g

NGroups == 4

NoCaps == [g \in 1..NGroups |-> <<0, 0>>]

NoMatch == [ok |-> FALSE, start |-> 0, end |-> 0, caps |-> NoCaps]

HasPrefixAt(str, pos, s) ==
    /\ pos + Len(s) - 1 <= Len(str)
    /\ \A j \in 1..Len(s) : str[pos + j - 1] = s[j]

Min(S) == CHOOSE x \in S : \A y \in S : x <= y

Max(S) == CHOOSE x \in S : \A y \in S : x >= y

\* how many characters of class c stand at str[pos], str[pos + 1], ...
Run(c, str, pos) ==
    LET stops == {q \in pos..Len(str) : ~InClass(c, str[q])}
    IN IF stops = {} THEN Len(str) + 1 - pos ELSE Min(stops) - pos

\* The match of the items at str[pos]: of the repetition counts of a
\* quantifier that let the rest of the items match, a greedy quantifier takes
\* the largest and a lazy one the smallest, which is the first one that
\* backtracking finds.
RECURSIVE MatchHere(_, _, _, _)

MatchHere(items, str, pos, caps) ==
    IF Len(items) = 0
    THEN [ok |-> TRUE, start |-> 0, end |-> pos, caps |-> caps]
    ELSE LET it == Head(items)
             rest == Tail(items)
         IN CASE it.k = "lit" ->
                   IF HasPrefixAt(str, pos, it.s)
                   THEN MatchHere(rest, str, pos + Len(it.s), caps)
                   ELSE NoMatch
              [] it.k = "open" ->
                   MatchHere(rest, str, pos, [caps EXCEPT ![it.g] = <<pos, pos>>])
              [] it.k = "close" ->
                   MatchHere(rest, str, pos, [caps EXCEPT ![it.g] = <<caps[it.g][1], pos>>])
              [] it.k = "opt" ->
                   LET r == MatchHere(it.sub \o rest, str, pos, caps)
                   IN IF r.ok THEN r ELSE MatchHere(rest, str, pos, caps)
              [] it.k = "rep" ->
                   LET n == Run(it.c, str, pos)
                       tries == {<<k, MatchHere(rest, str, pos + k, caps)>> : k \in it.min..n}
                       oks == {k \in it.min..n : <<k, NoMatch>> \notin tries}
                       pick == IF it.greedy THEN Max(oks) ELSE Min(oks)
                   IN IF oks = {} THEN NoMatch
                      ELSE (CHOOSE t \in tries : t[1] = pick)[2]

\* regex.exec(str) with the search started at str[from]: the leftmost match.
ExecFrom(regex, str, from) ==
    LET tries == {<<p, MatchHere(regex, str, p, NoCaps)>> : p \in from..(Len(str) + 1)}
        starts == {p \in from..(Len(str) + 1) : <<p, NoMatch>> \notin tries}
        first == Min(starts)
    IN IF starts = {} THEN NoMatch
       ELSE [(CHOOSE t \in tries : t[1] = first)[2] EXCEPT !.start = first]

Exec(regex, str) == ExecFrom(regex, str, 1)

Group(str, m, g) == SubSeq(str, m.caps[g][1], m.caps[g][2] - 1)

(***************************************************************************)
(* JavaScript string methods used by the code                               *)
(***************************************************************************)

\* str.split(sep) for a one-character separator: "" splits to [""].
Split(str, sep) ==
    LET at == {p \in 1..Len(str) : str[p] = sep}
        \* the k-th separator; the 0-th stands before the text, the last after it
        cut(k) == IF k = 0 THEN 0
                  ELSE IF k > Cardinality(at) THEN Len(str) + 1
                       ELSE CHOOSE p \in at : Cardinality({q \in at : q < p}) = k - 1
    IN [k \in 1..(Cardinality(at) + 1) |-> SubSeq(str, cut(k - 1) + 1, cut(k) - 1)]

\* Mutant of Join: the parts are joined with a blank.
RECURSIVE JoinWithBlank(_, _)
JoinWithBlank(parts, sep) ==
    IF Len(parts) = 0 THEN <<>>
    ELSE IF Len(parts) = 1 THEN parts[1]
         ELSE parts[1] \o <<" ">> \o JoinWithBlank(Tail(parts), sep)

\* parts.join(sep): [] joins to "".
RECURSIVE Join(_, _)
Join(parts, sep) ==
    IF Len(parts) = 0 THEN <<>>
    ELSE IF Len(parts) = 1 THEN parts[1]
         ELSE parts[1] \o <<sep>> \o Join(Tail(parts), sep)

\* The replacement text of str.replace: literal pieces and $g references.
Ref(g) == Item("ref", <<>>, "", 0, TRUE, <<>>, g)

RECURSIVE Expand(_, _, _)
Expand(template, str, m) ==
    IF Len(template) = 0 THEN <<>>
    ELSE LET p == Head(template)
         IN (IF p.k = "ref" THEN Group(str, m, p.g) ELSE p.s)
            \o Expand(Tail(template), str, m)

\* str.replace(regex, template), regex without the g flag: the first match only.
Replace(str, regex, template) ==
    LET m == Exec(regex, str)
    IN IF ~m.ok THEN str
       ELSE SubSeq(str, 1, m.start - 1) \o Expand(template, str, m)
            \o SubSeq(str, m.end, Len(str))

\* str.replace(regex, ''), regex with the g flag and no empty match.
RECURSIVE RemoveAllFrom(_, _, _)
RemoveAllFrom(str, regex, from) ==
    LET m == ExecFrom(regex, str, from)
    IN IF ~m.ok THEN SubSeq(str, from, Len(str))
       ELSE SubSeq(str, from, m.start - 1) \o RemoveAllFrom(str, regex, m.end)

RemoveAll(str, regex) == RemoveAllFrom(str, regex, 1)

\* str.trim()
TrimStart(str) ==
    LET black == {p \in 1..Len(str) : str[p] \notin WhiteSpace}
    IN IF black = {} THEN <<>> ELSE SubSeq(str, Min(black), Len(str))

TrimEnd(str) ==
    LET black == {p \in 1..Len(str) : str[p] \notin WhiteSpace}
    IN IF black = {} THEN <<>> ELSE SubSeq(str, 1, Max(black))

Trim(str) == TrimEnd(TrimStart(str))

(***************************************************************************)
(* Numbers: a JavaScript number is an integer or NaN                        *)
(***************************************************************************)

Num(n) == [nan |-> FALSE, v |-> n]

NaN == [nan |-> TRUE, v |-> 0]

NumAdd(a, b) == IF a.nan \/ b.nan THEN NaN ELSE Num(a.v + b.v)

NumMul(a, b) == IF a.nan \/ b.nan THEN NaN ELSE Num(a.v * b.v)

DigitValue ==
    [ch \in Digits \cup {"a", "b", "c", "d", "e", "f", "A", "B", "C", "D", "E", "F"} |->
        CASE ch = "0" -> 0 [] ch = "1" -> 1 [] ch = "2" -> 2 [] ch = "3" -> 3
          [] ch = "4" -> 4 [] ch = "5" -> 5 [] ch = "6" -> 6 [] ch = "7" -> 7
          [] ch = "8" -> 8 [] ch = "9" -> 9
          [] ch \in {"a", "A"} -> 10 [] ch \in {"b", "B"} -> 11
          [] ch \in {"c", "C"} -> 12 [] ch \in {"d", "D"} -> 13
          [] ch \in {"e", "E"} -> 14 [] ch \in {"f", "F"} -> 15]

\* The value of the longest prefix of str made of digits of the radix, and
\* how many digits it has.
RECURSIVE DigitsPrefix(_, _, _, _)
DigitsPrefix(str, radix, acc, n) ==
    IF Len(str) > 0 /\ Head(str) \in DOMAIN DigitValue /\ DigitValue[Head(str)] < radix
    THEN DigitsPrefix(Tail(str), radix, acc * radix + DigitValue[Head(str)], n + 1)
    ELSE [v |-> acc, n |-> n]

\* parseInt(str) with no radix argument: leading white space is skipped, a
\* sign is read, 0x/0X selects radix 16, the digits up to the first character
\* that is not a digit are read, and no digit at all gives NaN.
parseInt(str) ==
    LET s == TrimStart(str)
        neg == Len(s) > 0 /\ Head(s) = "-"
        u == IF Len(s) > 0 /\ Head(s) \in {"+", "-"} THEN Tail(s) ELSE s
        hex == Len(u) >= 2 /\ u[1] = "0" /\ u[2] \in {"x", "X"}
        d == IF hex THEN DigitsPrefix(SubSeq(u, 3, Len(u)), 16, 0, 0)
                    ELSE DigitsPrefix(u, 10, 0, 0)
    IN IF d.n = 0 THEN NaN ELSE Num(IF neg THEN 0 - d.v ELSE d.v)

\* Mutant of convertToSeconds: two parts are read as hours and minutes.
convertToSecondsHoursMinutes(t) ==
    LET strs == Split(t, ":")
        parts == [k \in 1..Len(strs) |-> parseInt(strs[k])]
    IN IF Len(parts) = 3
       THEN NumAdd(NumAdd(NumMul(parts[1], Num(3600)), NumMul(parts[2], Num(60))), parts[3])
       ELSE IF Len(parts) = 2
            THEN NumAdd(NumMul(parts[1], Num(3600)), NumMul(parts[2], Num(60)))
            ELSE IF Len(parts) = 1 THEN parts[1] ELSE Num(0)

convertToSeconds(t) ==
    LET strs == Split(t, ":")
        parts == [k \in 1..Len(strs) |-> parseInt(strs[k])]
    IN IF Len(parts) = 3
       THEN NumAdd(NumAdd(NumMul(parts[1], Num(3600)), NumMul(parts[2], Num(60))), parts[3])
       ELSE IF Len(parts) = 2
            THEN NumAdd(NumMul(parts[1], Num(60)), parts[2])
            ELSE IF Len(parts) = 1 THEN parts[1] ELSE Num(0)

(***************************************************************************)
(* he.decode, the library call behind decodeHtmlCharCodes, on the           *)
(* references the descriptions of the model contain: the named references   *)
(* amp, lt, gt and quot with or without the semicolon, and decimal          *)
(* references (no hexadecimal ones).  The alternatives are tried in the     *)
(* order of he's regexDecode; an "&" that starts none of them is copied.    *)
(***************************************************************************)

NamedReferences ==
    << [name |-> <<"a","m","p">>, symbol |-> "&"],
       [name |-> <<"l","t">>, symbol |-> "<"],
       [name |-> <<"g","t">>, symbol |-> ">"],
       [name |-> <<"q","u","o","t">>, symbol |-> "\""] >>

Ascii == [n \in {32, 38, 39, 60, 62} |->
            CASE n = 32 -> " " [] n = 38 -> "&" [] n = 39 -> "'"
              [] n = 60 -> "<" [] n = 62 -> ">"]

codePointToSymbol(n) == IF n \in DOMAIN Ascii THEN Ascii[n] ELSE "U+" \o ToString(n)

\* The reference at str[pos] = "&": what replaces it and where the scan goes on.
DecodeAt(str, pos) ==
    LET named(semi) ==
            {k \in 1..Len(NamedReferences) :
                HasPrefixAt(str, pos + 1,
                    NamedReferences[k].name \o IF semi THEN <<";">> ELSE <<>>)}
        first(S) == CHOOSE k \in S : \A j \in S : k <= j
        dec == DigitsPrefix(SubSeq(str, pos + 2, Len(str)), 10, 0, 0)
        semiAfter(p) == IF p <= Len(str) /\ str[p] = ";" THEN 1 ELSE 0
    IN IF named(TRUE) # {}
       THEN LET r == NamedReferences[first(named(TRUE))]
            IN [out |-> <<r.symbol>>, next |-> pos + Len(r.name) + 2]
       ELSE IF named(FALSE) # {}
            THEN LET r == NamedReferences[first(named(FALSE))]
                 IN [out |-> <<r.symbol>>, next |-> pos + Len(r.name) + 1]
            ELSE IF pos + 1 <= Len(str) /\ str[pos + 1] = "#" /\ dec.n > 0
                 THEN [out |-> <<codePointToSymbol(dec.v)>>,
                       next |-> pos + 2 + dec.n + semiAfter(pos + 2 + dec.n)]
                 ELSE [out |-> <<"&">>, next |-> pos + 1]

\* str from pos on, decoded: the text up to the next "&" is copied
RECURSIVE DecodeFrom(_, _)
DecodeFrom(str, pos) ==
    LET amps == {p \in pos..Len(str) : str[p] = "&"}
    IN IF amps = {} THEN SubSeq(str, pos, Len(str))
       ELSE LET d == DecodeAt(str, Min(amps))
            IN SubSeq(str, pos, Min(amps) - 1) \o d.out \o DecodeFrom(str, d.next)

decodeHtmlCharCodes(str) == DecodeFrom(str, 1)

(***************************************************************************)
(* phaseDescription: its regular expressions and the steps of its loop      *)
(***************************************************************************)

\* /<a href="([^"]+)"/
urlRegex ==
    << Lit(<<"<","a"," ","h","r","e","f","=","\"">>),
       Open(1), Plus("[^\"]"), Close(1), Lit(<<"\"">>) >>

\* /<a href="([^"]+)" data-onclick="jump_to_time" data-jump-time="(\d+)">
\*  (\d+:\d+(?::\d+)?)<\/a>\s*(.+)/
timestampRegexInvidious ==
    << Lit(<<"<","a"," ","h","r","e","f","=","\"">>),
       Open(1), Plus("[^\"]"), Close(1),
       Lit(<<"\""," ","d","a","t","a","-","o","n","c","l","i","c","k","=","\"","j","u","m","p",
             "_","t","o","_","t","i","m","e","\""," ","d","a","t","a","-","j","u","m","p","-",
             "t","i","m","e","=","\"">>),
       Open(2), Plus("\\d"), Close(2),
       Lit(<<"\"", ">">>),
       Open(3), Plus("\\d"), Lit(<<":">>), Plus("\\d"),
                Opt(<< Lit(<<":">>), Plus("\\d") >>), Close(3),
       Lit(<<"<", "/", "a", ">">>),
       Star("\\s"),
       Open(4), Plus("."), Close(4) >>

\* /&(?:\S*?&)?t=(\d+)\s*s.*?<span[^>]*>([^<]*)<\/span>.*?>(.*?)<\/span>/
timestampRegexYtJs ==
    << Lit(<<"&">>),
       Opt(<< LazyStar("\\S"), Lit(<<"&">>) >>),
       Lit(<<"t", "=">>),
       Open(1), Plus("\\d"), Close(1),
       Star("\\s"), Lit(<<"s">>),
       LazyStar("."),
       Lit(<<"<", "s", "p", "a", "n">>), Star("[^>]"), Lit(<<">">>),
       Open(2), Star("[^<]"), Close(2),
       Lit(<<"<","/","s","p","a","n",">">>),
       LazyStar("."), Lit(<<">">>),
       Open(3), LazyStar("."), Close(3),
       Lit(<<"<","/","s","p","a","n",">">>) >>

\* /<[^>]+>/g
tagRegex == << Lit(<<"<">>), Plus("[^>]"), Lit(<<">">>) >>

\* /\n/g
newlineRegex == << Lit(<<"\n">>) >>

\* Mutant of linkTemplate: $1 is written out as it stands, not expanded.
linkTemplateUnexpanded ==
    << Lit(<<"<","a"," ","h","r","e","f","=","\"">>), Lit(<<"$", "1">>),
       Lit(<<"\"">>),
       Lit(<<" ","t","a","r","g","e","t","=","\"","_","b","l","a","n","k","\""," ","r","e","l",
             "=","\"","n","o","o","p","e","n","e","r"," ","n","o","r","e","f","e","r","r","e",
             "r","\""," ","c","l","a","s","s","=","\"","l","i","n","k","\"">>) >>

\* '<a href="$1" target="_blank" rel="noopener noreferrer" class="link"'
linkTemplate ==
    << Lit(<<"<","a"," ","h","r","e","f","=","\"">>), Ref(1),
       Lit(<<"\"">>),
       Lit(<<" ","t","a","r","g","e","t","=","\"","_","b","l","a","n","k","\""," ","r","e","l",
             "=","\"","n","o","o","p","e","n","e","r"," ","n","o","r","e","f","e","r","r","e",
             "r","\""," ","c","l","a","s","s","=","\"","l","i","n","k","\"">>) >>

\* the '</span>' appended to the line before the youtube.js pattern is tried
closingSpan == <<"<","/","s","p","a","n",">">>

\* urlRegex.exec(line)
execUrl(line) == Exec(urlRegex, line)

\* (usingYoutubeJs ? timestampRegexYtJs : timestampRegexInvidious)
\*     .exec(usingYoutubeJs ? line + '</span>' : line)
timestampSubject(line, ytjs) == IF ytjs THEN line \o closingSpan ELSE line

execTimestamp(line, ytjs) ==
    Exec(IF ytjs THEN timestampRegexYtJs ELSE timestampRegexInvidious,
         timestampSubject(line, ytjs))

\* const modifiedLine = line.replace(/<a href="([^"]+)"/, '<a href="$1" ...')
modifiedLine(line) == Replace(line, urlRegex, linkTemplate)

\* Mutant of cleanTitle: the tags are left in the title.
cleanTitleKeepTags(title) == Trim(RemoveAll(title, newlineRegex))

\* title.replace(/<[^>]+>/g, '').replace(/\n/g, '').trim()
cleanTitle(title) == Trim(RemoveAll(RemoveAll(title, tagRegex), newlineRegex))

\* Mutant of timestampEntry: the time is computed from the clock text.
timestampEntryFromClock(line, ytjs, m) ==
    LET subject == timestampSubject(line, ytjs)
        timestamp == IF ytjs THEN Group(subject, m, 2) ELSE Group(subject, m, 3)
        title == IF ytjs THEN Group(subject, m, 3) ELSE Group(subject, m, 4)
    IN [time |-> convertToSeconds(timestamp),
        title |-> decodeHtmlCharCodes(cleanTitle(title)),
        timePretty |-> timestamp]

\* the object pushed into timestamps for a line whose timestampMatch is m
timestampEntry(line, ytjs, m) ==
    LET subject == timestampSubject(line, ytjs)
        t == IF ytjs THEN Group(subject, m, 1) ELSE Group(subject, m, 2)
        timestamp == IF ytjs THEN Group(subject, m, 2) ELSE Group(subject, m, 3)
        title == IF ytjs THEN Group(subject, m, 3) ELSE Group(subject, m, 4)
    IN [time |-> convertToSeconds(t),
        title |-> decodeHtmlCharCodes(cleanTitle(title)),
        timePretty |-> timestamp]

capturedTitle(line, ytjs, m) ==
    LET subject == timestampSubject(line, ytjs)
    IN IF ytjs THEN Group(subject, m, 3) ELSE Group(subject, m, 4)


\* Mutant of lineBranch: a line with a URL is rewritten whether or not it has
\* a timestamp.
lineBranchUrlFirst(um, tm) ==
    IF um.ok THEN "modify"
    ELSE IF tm.ok THEN "timestamp"
         ELSE "keep"

\* Mutant of lineBranch: a timestamp is taken only from a line with a URL.
lineBranchNeedsUrl(um, tm) ==
    IF um.ok /\ ~tm.ok THEN "modify"
    ELSE IF tm.ok /\ um.ok THEN "timestamp"
         ELSE "keep"

\* the branch of the loop body taken for urlMatch um and timestampMatch tm
lineBranch(um, tm) ==
    IF um.ok /\ ~tm.ok THEN "modify"
    ELSE IF tm.ok THEN "timestamp"
         ELSE "keep"

-----------------------------------------------------------------------------
(* The descriptions and time strings the model is run on *)

AHref == <<"<","a"," ","h","r","e","f","=","\"">>

JumpAttrs ==
    <<"\""," ","d","a","t","a","-","o","n","c","l","i","c","k","=","\"","j","u","m","p","_","t",
          "o","_","t","i","m","e","\""," ","d","a","t","a","-","j","u","m","p","-","t","i","m",
          "e","=","\"">>

TagEnd == <<"\"", ">">>

AClose == <<"<", "/", "a", ">">>

\* <a href="URL">TEXT</a>
Anchor(url, text) == AHref \o url \o TagEnd \o text \o AClose

\* <a href="URL" data-onclick="jump_to_time" data-jump-time="SECONDS">CLOCK</a>REST
LegacyLine(url, secs, clock, rest) ==
    AHref \o url \o JumpAttrs \o secs \o TagEnd \o clock \o AClose \o rest

\* <a href="URL"><span>CLOCK</span></a>REST
YtJsLine(url, clock, rest) ==
    AHref \o url \o TagEnd \o <<"<", "s", "p", "a", "n", ">">> \o clock
    \o closingSpan \o AClose \o rest

SampleLines ==
    { <<>>,                                                  \* an empty line
      <<"h", "i">>,                                          \* hi
      Anchor(<<"u">>, <<"x">>),                              \* <a href="u">x</a>
      <<"a">> \o closingSpan,                                \* a</span>
      Anchor(<<"$", "&">>, <<"x">>),                         \* <a href="$&">x</a>
      Anchor(<<>>, <<"x">>),                                 \* <a href="">x</a>
      Anchor(<<"u">>, <<"x">>) \o Anchor(<<"v">>, <<"y">>),  \* two anchors
      \* ... data-jump-time="5">0:05</a> T &amp; J
      LegacyLine(<<"u">>, <<"5">>, <<"0", ":", "0", "5">>,
                 <<" ","T"," ","&","a","m","p",";"," ","J">>),
      \* ... data-jump-time="3930">1:05:30</a> <b>A</b> (and a trailing blank)
      LegacyLine(<<"u">>, <<"3", "9", "3", "0">>, <<"1", ":", "0", "5", ":", "3", "0">>,
                 <<" ","<","b",">","A","<","/","b",">"," ">>),
      \* ... data-jump-time="7">1:05</a> It&#39;s &amp;lt;
      LegacyLine(<<"u">>, <<"7">>, <<"1", ":", "0", "5">>,
                 <<" ","I","t","&","#","3","9",";","s"," ","&","a","m","p",";","l","t",";">>),
      \* ... data-jump-time="9">0:09</a> with no title after it
      LegacyLine(<<"u">>, <<"9">>, <<"0", ":", "0", "9">>, <<>>),
      \* <a href="/w?a&b&t=5s"><span>0:05</span></a><span> T</span>
      YtJsLine(<<"/","w","?","a","&","b","&","t","=","5","s">>, <<"0", ":", "0", "5">>,
               <<"<","s","p","a","n",">"," ","T","<","/","s","p","a","n",">">>),
      \* &t=8s <span>0:08</span> <b>x&gt;  (no anchor)
      <<"&","t","=","8","s"," ","<","s","p","a","n",">","0",":","0","8","<","/","s","p","a","n",
            ">"," ","<","b",">","x","&","g","t",";">> }

RECURSIVE Descriptions(_)
Descriptions(n) ==
    IF n = 1 THEN SampleLines
    ELSE LET shorter == Descriptions(n - 1)
             longest == {x \in shorter : Len(Split(x, "\n")) = n - 1}
         IN shorter \cup {d \o <<"\n">> \o l : d \in longest, l \in SampleLines}

SampleParts ==
    { <<>>, <<"1">>, <<"2">>, <<"0", "5">>, <<"3", "0">>, <<"4", "5">>,
      <<"1", "2", "a", "b", "c">>, <<"x">> }

RECURSIVE TimeStrings(_)
TimeStrings(n) ==
    IF n = 1 THEN SampleParts
    ELSE LET shorter == TimeStrings(n - 1)
             longest == {x \in shorter : Len(Split(x, ":")) = n - 1}
         IN shorter \cup {t \o <<":">> \o p : t \in longest, p \in SampleParts}

-----------------------------------------------------------------------------
(* phaseDescription as a state machine *)

NoResult == [description |-> <<>>, timestamps |-> <<>>]

Init ==
    /\ content \in Descriptions(MaxLines)
    /\ usingYoutubeJs \in BOOLEAN
    /\ lines = <<>>
    /\ idx = 0
    /\ urlMatch = NoMatch
    /\ timestampMatch = NoMatch
    /\ filteredLines = <<>>
    /\ timestamps = <<>>
    /\ capturedTitles = <<>>
    /\ result = NoResult
    /\ previous = NoResult
    /\ pass = 1
    /\ pc = "call"
    /\ time = <<>>
    /\ seconds = Num(0)

\* phaseDescription is entered: lines 116-124
Call ==
    /\ pc = "call"
    /\ lines' = Split(content, "\n")
    /\ idx' = 1
    /\ filteredLines' = <<>>
    /\ timestamps' = <<>>
    /\ capturedTitles' = <<>>
    /\ pc' = "forEach"
    /\ UNCHANGED <<content, usingYoutubeJs, urlMatch, timestampMatch, result, previous,
                   pass, time, seconds>>

\* lines 126-128: the two patterns are tried on the next line
MatchLine ==
    /\ pc = "forEach"
    /\ idx <= Len(lines)
    /\ urlMatch' = execUrl(lines[idx])
    /\ timestampMatch' = execTimestamp(lines[idx], usingYoutubeJs)
    /\ pc' = "branch"
    /\ UNCHANGED <<content, usingYoutubeJs, lines, idx, filteredLines, timestamps,
                   capturedTitles, result, previous, pass, time, seconds>>

\* lines 130-136: the line has a URL and no timestamp
ModifyUrl ==
    /\ pc = "branch"
    /\ lineBranch(urlMatch, timestampMatch) = "modify"
    /\ filteredLines' = Append(filteredLines, modifiedLine(lines[idx]))
    /\ idx' = idx + 1
    /\ pc' = "forEach"
    /\ UNCHANGED <<content, usingYoutubeJs, lines, urlMatch, timestampMatch, timestamps,
                   capturedTitles, result, previous, pass, time, seconds>>

\* lines 137-147: the line has a timestamp
PushTimestamp ==
    /\ pc = "branch"
    /\ lineBranch(urlMatch, timestampMatch) = "timestamp"
    /\ timestamps' = Append(timestamps,
                            timestampEntry(lines[idx], usingYoutubeJs, timestampMatch))
    /\ capturedTitles' = Append(capturedTitles,
                                capturedTitle(lines[idx], usingYoutubeJs, timestampMatch))
    /\ idx' = idx + 1
    /\ pc' = "forEach"
    /\ UNCHANGED <<content, usingYoutubeJs, lines, urlMatch, timestampMatch, filteredLines,
                   result, previous, pass, time, seconds>>

\* lines 148-150: any other line
KeepLine ==
    /\ pc = "branch"
    /\ lineBranch(urlMatch, timestampMatch) = "keep"
    /\ filteredLines' = Append(filteredLines, lines[idx])
    /\ idx' = idx + 1
    /\ pc' = "forEach"
    /\ UNCHANGED <<content, usingYoutubeJs, lines, urlMatch, timestampMatch, timestamps,
                   capturedTitles, result, previous, pass, time, seconds>>

\* lines 153-155
Return ==
    /\ pc = "forEach"
    /\ idx > Len(lines)
    /\ result' = [description |-> Join(filteredLines, "\n"), timestamps |-> timestamps]
    /\ pc' = "done"
    /\ UNCHANGED <<content, usingYoutubeJs, lines, idx, urlMatch, timestampMatch,
                   filteredLines, timestamps, capturedTitles, previous, pass, time, seconds>>

\* the caller runs phaseDescription on the description it returned
Reapply ==
    /\ pc = "done"
    /\ pass < MaxPasses
    /\ content' = result.description
    /\ previous' = result
    /\ pass' = pass + 1
    /\ pc' = "call"
    /\ UNCHANGED <<usingYoutubeJs, lines, idx, urlMatch, timestampMatch, filteredLines,
                   timestamps, capturedTitles, result, time, seconds>>

Next == Call \/ MatchLine \/ ModifyUrl \/ PushTimestamp \/ KeepLine \/ Return \/ Reapply

Spec == Init /\ [][Next]_vars

-----------------------------------------------------------------------------
(* convertToSeconds called on its own *)

InitTime ==
    /\ time \in TimeStrings(MaxParts)
    /\ seconds = Num(0)
    /\ pc = "time"
    /\ content = <<>>
    /\ usingYoutubeJs = FALSE
    /\ lines = <<>>
    /\ idx = 0
    /\ urlMatch = NoMatch
    /\ timestampMatch = NoMatch
    /\ filteredLines = <<>>
    /\ timestamps = <<>>
    /\ capturedTitles = <<>>
    /\ result = NoResult
    /\ previous = NoResult
    /\ pass = 1

Convert ==
    /\ pc = "time"
    /\ seconds' = convertToSeconds(time)
    /\ pc' = "timeDone"
    /\ UNCHANGED <<content, usingYoutubeJs, lines, idx, urlMatch, timestampMatch,
                   filteredLines, timestamps, capturedTitles, result, previous, pass, time>>

NextTime == Convert

SpecTime == InitTime /\ [][NextTime]_vars

-----------------------------------------------------------------------------
(* Vocabulary of the properties *)

Contains(str, s) == \E p \in 1..(Len(str) - Len(s) + 1) : HasPrefixAt(str, p, s)

\* the '\n'-separated lines of the input of the running call
InputLines == Split(content, "\n")

IsTimestampLine(l) == execTimestamp(l, usingYoutubeJs).ok

IsOtherLine(l) == ~execTimestamp(l, usingYoutubeJs).ok

\* the input lines the mode's timestamp pattern matches, and the others
TimestampLines == SelectSeq(InputLines, IsTimestampLine)

OtherLines == SelectSeq(InputLines, IsOtherLine)

\* the lines of the returned description; no line at all when no line of
\* others was there to keep
RetainedLines(others) == IF Len(others) = 0 THEN <<>> ELSE Split(result.description, "\n")

Decoration ==
    <<" ","t","a","r","g","e","t","=","\"","_","b","l","a","n","k","\""," ","r","e","l","=","\"",
      "n","o","o","p","e","n","e","r"," ","n","o","r","e","f","e","r","r","e","r","\""," ",
      "c","l","a","s","s","=","\"","l","i","n","k","\"">>

\* where an anchor with a non-empty href value starts in l
AnchorStarts(l) ==
    {p \in 1..Len(l) :
        /\ HasPrefixAt(l, p, AHref)
        /\ p + Len(AHref) <= Len(l)
        /\ l[p + Len(AHref)] # "\""
        /\ \E e \in (p + Len(AHref) + 1)..Len(l) : l[e] = "\""}

\* the position of the quote that closes the href value of the first anchor
FirstHrefEnd(l) ==
    Min({e \in (Min(AnchorStarts(l)) + Len(AHref) + 1)..Len(l) : l[e] = "\""})

References ==
    { [text |-> <<"&","a","m","p",";">>, symbol |-> "&"],
      [text |-> <<"&","l","t",";">>, symbol |-> "<"],
      [text |-> <<"&","g","t",";">>, symbol |-> ">"],
      [text |-> <<"&","q","u","o","t",";">>, symbol |-> "\""],
      [text |-> <<"&","#","3","9",";">>, symbol |-> "'"] }

\* r stands in raw behind an encoded "&": decoding is what makes it appear
DoubleEncoded(raw, r) ==
    \E a \in {<<"&","a","m","p",";">>, <<"&","a","m","p">>,
              <<"&","#","3","8",";">>, <<"&","#","3","8">>} :
        Contains(raw, a \o Tail(r.text))

HasTag(str) ==
    \E p \in 1..Len(str) : \E e \in (p + 2)..Len(str) :
        str[p] = "<" /\ str[e] = ">" /\ \A x \in (p + 1)..(e - 1) : str[x] # ">"

DecimalDigits == <<"0", "1", "2", "3", "4", "5", "6", "7", "8", "9">>

RECURSIVE DecimalValue(_)
DecimalValue(ds) ==
    IF Len(ds) = 0 THEN 0
    ELSE 10 * DecimalValue(SubSeq(ds, 1, Len(ds) - 1))
         + (CHOOSE d \in 0..9 : DecimalDigits[d + 1] = ds[Len(ds)])

IsDecimal(p) == Len(p) > 0 /\ \A k \in 1..Len(p) : p[k] \in Digits

TimeParts == Split(time, ":")

-----------------------------------------------------------------------------
(* C1: running phaseDescription on the description it returned gives the    *)
(* same description, character for character, and no timestamps.            *)
C1_Idempotent ==
    (pc = "done" /\ pass > 1) =>
        /\ result.description = previous.description
        /\ result.timestamps = <<>>

(* C2: an input with no '<a href="' on any line comes back unchanged and    *)
(* with no timestamps, in both modes.                                       *)
C2_NoAnchorUnchanged ==
    (pc = "done" /\ ~Contains(content, AHref)) =>
        /\ result.description = content
        /\ result.timestamps = <<>>

(* C3: in legacy mode every line the legacy timestamp pattern matches gives *)
(* exactly one timestamps entry, the entries stand in the order of their    *)
(* lines, and no such line is in the description, neither as it was nor     *)
(* with its anchor rewritten.                                               *)
C3_LegacyTimestampLines ==
    (pc = "done" /\ ~usingYoutubeJs) =>
        LET ts == TimestampLines
            kept == RetainedLines(OtherLines)
        IN /\ Len(result.timestamps) = Len(ts)
           /\ \A k \in 1..Len(ts) :
                 LET l == ts[k]
                     m == Exec(timestampRegexInvidious, l)
                     rewritten == modifiedLine(l)
                 IN /\ result.timestamps[k].timePretty = Group(l, m, 3)
                    /\ capturedTitles[k] = Group(l, m, 4)
                    /\ \A j \in 1..Len(kept) : kept[j] # l /\ kept[j] # rewritten

C3_Witness ==
    /\ pc = "done"
    /\ ~usingYoutubeJs
    /\ Len(lines) = 2
    /\ Len(result.timestamps) = 2
    /\ result.timestamps[1].timePretty # result.timestamps[2].timePretty

(* C4, as amended: the number of lines kept is the number of input lines    *)
(* minus the number of timestamps; the description has that many            *)
(* '\n'-separated lines when a line is kept, and is the empty text, which   *)
(* splits to one line, when none is.                                        *)
C4_LineCount ==
    pc = "done" =>
        /\ Len(filteredLines) = Len(InputLines) - Len(result.timestamps)
        /\ Len(filteredLines) > 0 =>
              Len(Split(result.description, "\n")) = Len(filteredLines)
        /\ Len(filteredLines) = 0 =>
              /\ result.description = <<>>
              /\ Len(Split(result.description, "\n")) = 1

\* C4 as stated: the count holds also when every line is a timestamp line
C4_LineCountAsStated ==
    pc = "done" =>
        Len(Split(result.description, "\n")) = Len(InputLines) - Len(result.timestamps)

C4_Witness ==
    /\ pc = "done"
    /\ Len(InputLines) = 2
    /\ Len(result.timestamps) = 2
    /\ result.description = <<>>

(* C5: the lines of the description are the input lines the mode's          *)
(* timestamp pattern does not match, in their order; a line with no anchor  *)
(* is kept character for character (the '</span>' appended for matching is  *)
(* not in it), and only a line with an anchor differs from its input line.  *)
C5_FrameDescription ==
    pc = "done" =>
        LET others == OtherLines
            kept == RetainedLines(others)
        IN /\ Len(kept) = Len(others)
           /\ Len(others) = 0 => result.description = <<>>
           /\ \A k \in 1..Len(others) :
                 /\ ~Contains(others[k], AHref) => kept[k] = others[k]
                 /\ AnchorStarts(others[k]) = {} => kept[k] = others[k]
                 /\ kept[k] # others[k] => Len(kept[k]) = Len(others[k]) + Len(Decoration)

C5_Witness ==
    /\ pc = "done"
    /\ usingYoutubeJs
    /\ Len(lines) = 2
    /\ Len(result.timestamps) = 1
    /\ result.description = lines[1] \/ result.description = lines[2]
    /\ Contains(result.description, closingSpan)

(* C6: a line with an anchor '<a href="URL"' that the mode's timestamp      *)
(* pattern does not match is kept with                                      *)
(* ' target="_blank" rel="noopener noreferrer" class="link"' put after the  *)
(* href of its first anchor, the URL and the rest of the line unchanged.    *)
C6_AnchorRewritten ==
    pc = "done" =>
        LET others == OtherLines
            kept == RetainedLines(others)
        IN /\ Len(kept) = Len(others)
           /\ \A k \in 1..Len(others) :
                 LET l == others[k]
                     e == FirstHrefEnd(l)
                 IN AnchorStarts(l) # {} =>
                       kept[k] = SubSeq(l, 1, e) \o Decoration \o SubSeq(l, e + 1, Len(l))

C6_Witness ==
    /\ pc = "done"
    /\ pass = 1
    /\ Len(lines) = 2
    /\ Contains(lines[1], <<"$", "&">>)
    /\ Cardinality(AnchorStarts(lines[2])) = 2
    /\ Len(result.timestamps) = 0
    /\ Contains(result.description, <<"$", "&", "\"">> \o Decoration)

(* C7: a time string with a part that is not a decimal number, or with more *)
(* than three parts, makes convertToSeconds return NaN.                     *)
C7_MalformedTimeIsNaN ==
    (/\ pc = "timeDone"
     /\ \/ Len(TimeParts) > 3
        \/ \E k \in 1..Len(TimeParts) : ~IsDecimal(TimeParts[k])) => seconds.nan

(* C8: the title of a timestamp entry is the captured title without its     *)
(* tags and newlines, trimmed, and with its character references decoded:   *)
(* no reference of the captured text is left undecoded in it.               *)
C8_TitleCleaned ==
    pc = "done" =>
        /\ Len(capturedTitles) = Len(result.timestamps)
        /\ \A k \in 1..Len(result.timestamps) :
              LET raw == capturedTitles[k]
                  title == result.timestamps[k].title
              IN /\ ~Contains(title, <<"\n">>)
                 /\ ~Contains(raw, <<"&">>) =>
                       /\ ~HasTag(title)
                       /\ Len(title) > 0 =>
                             title[1] \notin WhiteSpace /\ title[Len(title)] \notin WhiteSpace
                       /\ Len(title) <= Len(raw)
                       /\ \A x \in 1..Len(title) : \E y \in 1..Len(raw) : raw[y] = title[x]
                 /\ \A r \in References :
                       ~Contains(raw, <<"<">>) =>
                          /\ ~DoubleEncoded(raw, r) => ~Contains(title, r.text)
                          /\ Contains(raw, r.text) => Contains(title, <<r.symbol>>)
                 /\ raw = <<"T"," ","&","a","m","p",";"," ","J">>
                       => title = <<"T"," ","&"," ","J">>

C8_Witness ==
    /\ pc = "done"
    /\ Len(result.timestamps) = 2
    /\ capturedTitles[1] = <<"T"," ","&","a","m","p",";"," ","J">>
    /\ result.timestamps[1].title = <<"T"," ","&"," ","J">>
    /\ HasTag(capturedTitles[2])

(* C9: on ':'-separated decimal numbers convertToSeconds returns            *)
(* h*3600 + m*60 + s for three parts, m*60 + s for two and the number for   *)
(* one: 1:05:30 gives 3930, 2:30 gives 150, 45 gives 45.                    *)
C9_SecondsOfParts ==
    (/\ pc = "timeDone"
     /\ Len(TimeParts) <= 3
     /\ \A k \in 1..Len(TimeParts) : IsDecimal(TimeParts[k])) =>
        LET v(k) == DecimalValue(TimeParts[k])
        IN /\ Len(TimeParts) = 3 => seconds = Num(v(1) * 3600 + v(2) * 60 + v(3))
           /\ Len(TimeParts) = 2 => seconds = Num(v(1) * 60 + v(2))
           /\ Len(TimeParts) = 1 => seconds = Num(v(1))
           /\ time = <<"1",":","0","5",":","3","0">> => seconds = Num(3930)
           /\ time = <<"2",":","3","0">> => seconds = Num(150)
           /\ time = <<"4","5">> => seconds = Num(45)

C9_Witness ==
    /\ pc = "timeDone"
    /\ time = <<"1",":","0","5",":","3","0">>
    /\ seconds = Num(3930)

(* C10: every entry phaseDescription returns has a time that is a number    *)
(* >= 0, the decimal value of the seconds field the pattern captured; the   *)
(* clock text goes to timePretty and the time does not depend on it.        *)
C10_TimeIsSecondsField ==
    pc = "done" =>
        LET ts == TimestampLines
        IN /\ Len(result.timestamps) = Len(ts)
           /\ \A k \in 1..Len(ts) :
                 LET subject == timestampSubject(ts[k], usingYoutubeJs)
                     m == execTimestamp(ts[k], usingYoutubeJs)
                     field == Group(subject, m, IF usingYoutubeJs THEN 1 ELSE 2)
                     clock == Group(subject, m, IF usingYoutubeJs THEN 2 ELSE 3)
                     e == result.timestamps[k]
                 IN /\ ~e.time.nan
                    /\ e.time.v >= 0
                    /\ IsDecimal(field)
                    /\ e.time.v = DecimalValue(field)
                    /\ e.timePretty = clock

C10_Witness ==
    /\ pc = "done"
    /\ \E k \in 1..Len(result.timestamps) :
          /\ result.timestamps[k].time = Num(7)
          /\ result.timestamps[k].timePretty = <<"1", ":", "0", "5">>

====
